---- MODULE Spec2Model ----
(***************************************************************************)
(* logsplitter2: the sharded-write engine.                                 *)
(*                                                                         *)
(*   src/src/file_pool.rs   FilePool, FilePoolEntry (bounded pool of open  *)
(*                          output files, eviction through close_file)    *)
(*   src/src/output.rs      OutputFiles (router) and output_thread (worker)*)
(*   src/src/math_utils.rs  get_even_partition                             *)
(*   src/src/main.rs        run                                            *)
(*                                                                         *)
(* Two specifications:                                                     *)
(*   Spec      the whole pipeline: run's loop over the input lines, the    *)
(*             router, the bounded channels, the N output threads with     *)
(*             their pools and encoders, and the spawned closing tasks;    *)
(*   SpecPool  one FilePool driven by a client that calls take, give,      *)
(*             finish and writes through taken entries in any order.       *)
(*                                                                         *)
(* Abstractions.  A line is identified by its position in the input (its   *)
(* text is unique).  The gzip encoder is a queue of chunks: feeding a line *)
(* stores one chunk in the compressor (`raw`), the compressor moves any    *)
(* prefix of what it holds to the inner Vec (`buf`), finish() moves        *)
(* everything and appends the trailer chunk.  A chunk stands for           *)
(* ChunkBytes bytes; cursors and file contents are counted in chunks.      *)
(***************************************************************************)
EXTENDS Integers, Sequences, FiniteSets, TLC

\* ---------------------------------------------------------------- bounds
NumThreads == 2
MaxActiveFiles == 3
NumKeys == 4
MaxLines == 4
ChanBound == 2
ChunkBytes == 512
PoolKeys == 3
MaxCursor == 1
MaxBuf == 3
NumBytes == 2
MaxFileLen == 4
HashBits == 3
MaxSeed == 2
MaxBuckets == 10
MaxSum == 12
MaxInputLen == 4
MaxRead == 2
LineChanBound == 1
MaxFinishCalls == 2

\* ------------------------------------------------------ program constants
LowWaterMark == 1024

Threads == 0 .. (NumThreads - 1)
Keys == 1 .. NumKeys
Trailer == 0
Hole == -1

\* ----------------------------------------------------------- small helpers
Remove(f, k) == [x \in (DOMAIN f) \ {k} |-> f[x]]

Put(f, k, v) == [x \in (DOMAIN f) \cup {k} |-> IF x = k THEN v ELSE f[x]]

EmptyMap == [x \in {} |-> 0]

RemoveAt(s, i) == [j \in 1 .. (Len(s) - 1) |-> IF j < i THEN s[j] ELSE s[j + 1]]

Position(s, k) == CHOOSE i \in 1 .. Len(s) : s[i] = k /\ \A j \in 1 .. (i - 1) : s[j] # k

SeqRange(s) == {s[i] : i \in 1 .. Len(s)}

RECURSIVE Holes(_)
Holes(n) == IF n <= 0 THEN <<>> ELSE <<Hole>> \o Holes(n - 1)

\* File::write_at(buf, cursor): a positional write; bytes before the cursor
\* stay, bytes under the buffer are replaced, a gap is zero-filled.
write_at(file, data, cursor) ==
    LET before == IF cursor <= Len(file) THEN SubSeq(file, 1, cursor)
                  ELSE file \o Holes(cursor - Len(file))
        after == SubSeq(file, cursor + Len(data) + 1, Len(file))
    IN before \o data \o after

\* ------------------------------------------------------- math_utils.rs
\* A partition that leaves the remainder out.
get_even_partition_floor(buckets, sum) == [i \in 0 .. (buckets - 1) |-> sum \div buckets]

\* vec![sum / buckets; buckets], then one more for each of the first
\* sum % buckets entries.
get_even_partition(buckets, sum) ==
    [i \in 0 .. (buckets - 1) |-> (sum \div buckets) + (IF i < sum % buckets THEN 1 ELSE 0)]

\* ---------------------------------------------------------- file_pool.rs
\* A FilePool value: the four collections of the struct and its limit.
\* idle_files maps a key to its FilePoolEntry's cursor; inactive_files maps
\* a key to FilePoolEntryInactive {cursor, closing_task}, closing_task being
\* the state of the spawned task: "sync" (sync_all not completed), "close"
\* (synced, close not completed), "done".
FilePool_new(max_files) ==
    [max_open_files |-> max_files,
     idle_files_queue |-> <<>>,
     idle_files |-> EmptyMap,
     taken_files |-> {},
     inactive_files |-> EmptyMap]

has_no_file_handles(p) == Cardinality(DOMAIN p.idle_files) = 0

has_no_idle_or_inactive_files(p) ==
    Cardinality(DOMAIN p.idle_files) = 0 /\ Cardinality(DOMAIN p.inactive_files) = 0

open_files(p) == Cardinality(DOMAIN p.idle_files) + Cardinality(p.taken_files)

\* The result of a pool method: ok = FALSE is a panic.
Panicked(p) == [ok |-> FALSE, pool |-> p]

\* A close_file that does not keep the cursor of the file it closes.
close_file_forgets_cursor(p) ==
    IF p.idle_files_queue = <<>> THEN Panicked(p)
    ELSE LET to_close_key == Head(p.idle_files_queue) IN
         [ok |-> TRUE,
          pool |-> [p EXCEPT
              !.idle_files_queue = Tail(@),
              !.idle_files = Remove(@, to_close_key),
              !.inactive_files =
                  Put(@, to_close_key, [cursor |-> 0, closing_task |-> "sync"])]]

\* A close_file that drops the file without keeping an inactive entry.
close_file_drops(p) ==
    IF p.idle_files_queue = <<>> THEN Panicked(p)
    ELSE LET to_close_key == Head(p.idle_files_queue) IN
         [ok |-> TRUE,
          pool |-> [p EXCEPT
              !.idle_files_queue = Tail(@),
              !.idle_files = Remove(@, to_close_key)]]

\* A close_file that closes the file given back last.
close_file_newest(p) ==
    IF p.idle_files_queue = <<>> THEN Panicked(p)
    ELSE LET n == Len(p.idle_files_queue)
             to_close_key == p.idle_files_queue[n]
         IN
         [ok |-> TRUE,
          pool |-> [p EXCEPT
              !.idle_files_queue = SubSeq(@, 1, n - 1),
              !.idle_files = Remove(@, to_close_key),
              !.inactive_files =
                  Put(@, to_close_key,
                      [cursor |-> p.idle_files[to_close_key], closing_task |-> "sync"])]]

close_file(p) ==
    IF p.idle_files_queue = <<>> THEN Panicked(p)
    ELSE LET to_close_key == Head(p.idle_files_queue) IN
         IF to_close_key \notin DOMAIN p.idle_files THEN Panicked(p)
         ELSE IF to_close_key \in DOMAIN p.inactive_files THEN Panicked(p)
         ELSE [ok |-> TRUE,
               pool |-> [p EXCEPT
                   !.idle_files_queue = Tail(@),
                   !.idle_files = Remove(@, to_close_key),
                   !.inactive_files =
                       Put(@, to_close_key,
                           [cursor |-> p.idle_files[to_close_key],
                            closing_task |-> "sync"])]]

\* A take that leaves the queue as it is.
queue_remove_skipped(queue, to_take) == queue

\* take, idle branch: the key is removed from idle_files_queue at the
\* position where it is found.
queue_remove(queue, to_take) == RemoveAt(queue, Position(queue, to_take))

\* take that never evicts.
take_evict_never(p) == [ok |-> TRUE, pool |-> p]

\* take that evicts before every open or create, at the limit or not.
take_evict_always(p) == close_file(p)

\* take up to its first await.  branch tells how the entry is obtained:
\* "idle" (returned at once), "reopen" (await the closing task, then open),
\* "create" (File::create).  taken_files gets the key at once in the idle
\* branch and after the awaits in the other two (take_opened).
take_evict(p) == IF open_files(p) >= p.max_open_files THEN close_file(p) ELSE [ok |-> TRUE, pool |-> p]

take(p, to_take) ==
    IF to_take \in p.taken_files
    THEN [ok |-> FALSE, pool |-> p, branch |-> "panic", cursor |-> 0, closing_task |-> "done"]
    ELSE IF ~(Cardinality(p.taken_files) < p.max_open_files)
    THEN [ok |-> FALSE, pool |-> p, branch |-> "panic", cursor |-> 0, closing_task |-> "done"]
    ELSE IF to_take \in DOMAIN p.idle_files
    THEN IF to_take \notin SeqRange(p.idle_files_queue)
         THEN [ok |-> FALSE, pool |-> p, branch |-> "panic", cursor |-> 0, closing_task |-> "done"]
         ELSE [ok |-> TRUE,
               pool |-> [p EXCEPT
                   !.idle_files_queue = queue_remove(@, to_take),
                   !.idle_files = Remove(@, to_take),
                   !.taken_files = @ \cup {to_take}],
               branch |-> "idle",
               cursor |-> p.idle_files[to_take],
               closing_task |-> "done"]
    ELSE IF to_take \in DOMAIN p.inactive_files
    THEN LET c == take_evict(p) IN
         IF ~c.ok
         THEN [ok |-> FALSE, pool |-> c.pool, branch |-> "panic", cursor |-> 0, closing_task |-> "done"]
         ELSE [ok |-> TRUE,
               pool |-> [c.pool EXCEPT !.inactive_files = Remove(@, to_take)],
               branch |-> "reopen",
               cursor |-> c.pool.inactive_files[to_take].cursor,
               closing_task |-> c.pool.inactive_files[to_take].closing_task]
    ELSE LET c == take_evict(p) IN
         IF ~c.ok
         THEN [ok |-> FALSE, pool |-> c.pool, branch |-> "panic", cursor |-> 0, closing_task |-> "done"]
         ELSE [ok |-> TRUE, pool |-> c.pool, branch |-> "create", cursor |-> 0,
               closing_task |-> "done"]

\* take after its awaits: assert!(self.taken_files.insert(to_take)).
take_opened(p, to_take) ==
    IF to_take \in p.taken_files THEN Panicked(p)
    ELSE [ok |-> TRUE, pool |-> [p EXCEPT !.taken_files = @ \cup {to_take}]]

\* give that leaves the key in taken_files.
give_keeps_taken(p, key, cursor) ==
    IF key \notin p.taken_files THEN Panicked(p)
    ELSE IF key \in DOMAIN p.idle_files THEN Panicked(p)
    ELSE [ok |-> TRUE,
          pool |-> [p EXCEPT
              !.idle_files = Put(@, key, cursor),
              !.idle_files_queue = Append(@, key)]]

\* give without its assert on taken_files.
give_unchecked(p, key, cursor) ==
    IF key \in DOMAIN p.idle_files THEN Panicked(p)
    ELSE [ok |-> TRUE,
          pool |-> [p EXCEPT
              !.taken_files = @ \ {key},
              !.idle_files = Put(@, key, cursor),
              !.idle_files_queue = Append(@, key)]]

give(p, key, cursor) ==
    IF key \notin p.taken_files THEN Panicked(p)
    ELSE IF key \in DOMAIN p.idle_files THEN Panicked(p)
    ELSE [ok |-> TRUE,
          pool |-> [p EXCEPT
              !.taken_files = @ \ {key},
              !.idle_files = Put(@, key, cursor),
              !.idle_files_queue = Append(@, key)]]

\* finish, first loop: close_file once per idle file.
RECURSIVE close_files(_, _)
close_files(p, n) ==
    IF n = 0 THEN [ok |-> TRUE, pool |-> p]
    ELSE LET c == close_file(p) IN
         IF ~c.ok THEN c ELSE close_files(c.pool, n - 1)

finish_close(p) == close_files(p, Cardinality(DOMAIN p.idle_files))

\* finish, second loop and final assert, once every closing task is done.
finish_drain(p) ==
    IF Cardinality(DOMAIN p.idle_files) # 0 THEN Panicked(p)
    ELSE [ok |-> TRUE, pool |-> [p EXCEPT !.inactive_files = EmptyMap]]

\* FilePoolEntry::write_all: every chunk of to_write lands at the cursor,
\* which advances by the length written.
write_all(file, cursor, to_write) ==
    [file |-> write_at(file, to_write, cursor), cursor |-> cursor + Len(to_write)]


\* ------------------------------------------------------------ output.rs
\* GzEncoder<Vec<u8>>: raw is what the compressor still holds, buf the
\* inner Vec (get_ref / get_mut).
GzEncoder_new == [raw |-> <<>>, buf |-> <<>>]

\* An entry lookup that makes a new encoder every time.
encoders_entry_fresh(encs, key) == GzEncoder_new

\* encoders.entry(key).or_insert_with(|| GzEncoder::new(..)): the encoder of
\* the key when the map has one, a new one otherwise.
encoders_entry(encs, key) == IF key \in DOMAIN encs THEN encs[key] ELSE GzEncoder_new

\* An encoder that puts a new line in front of what it still holds.
enc_write_all_front(enc, ln, n) ==
    LET raw1 == <<ln>> \o enc.raw IN
    [raw |-> SubSeq(raw1, n + 1, Len(raw1)), buf |-> enc.buf \o SubSeq(raw1, 1, n)]

\* enc.write_all(line): the line enters the compressor, which moves the
\* first n chunks it holds to the inner Vec.
enc_write_all(enc, ln, n) ==
    LET raw1 == Append(enc.raw, ln) IN
    [raw |-> SubSeq(raw1, n + 1, Len(raw1)), buf |-> enc.buf \o SubSeq(raw1, 1, n)]

\* A finish that forgets what the compressor still holds.
enc_finish_drops_raw(enc) == enc.buf \o <<Trailer>>

\* enc.finish(): everything held, then the trailer, into the inner Vec,
\* which is returned.
enc_finish(enc) == enc.buf \o enc.raw \o <<Trailer>>

\* enc.get_ref().len() >= 1024
reached_mark(enc) == Len(enc.buf) * ChunkBytes >= LowWaterMark

MsgWrite(k, i) == [type |-> "Write", key |-> k, ln |-> i]

MsgFinish == [type |-> "Finish", key |-> 0, ln |-> 0]

NoCall == [type |-> "None", key |-> 0, ln |-> 0, to_write |-> <<>>, cursor |-> 0,
           closing_task |-> "done", branch |-> "none"]

\* -------------------------------------------------------------- data.rs
\* A line is told by what LineData::parse looks at: whether it is JSON at
\* all, and the values found at @meta.service, @meta.env and @timestamp: no
\* value, a value that is not a string, or a string.  A string is a
\* sequence of characters; a timestamp string is RFC 3339 (a date and the
\* rest: time of day and offset) or is not.
Strs == {<<"a">>, <<"a", "_", "a">>}

Dates == {<<"1">>, <<"2">>}

Times == {"t1", "t2"}

NoValue == [t |-> "missing"]

NotAString == [t |-> "not_a_string"]

Str(s) == [t |-> "str", s |-> s]

NotRfc3339 == [rfc3339 |-> FALSE]

Rfc3339(date, time) == [rfc3339 |-> TRUE, date |-> date, time |-> time]

FieldValues == {NoValue, NotAString} \cup {Str(s) : s \in Strs}

TimestampValues ==
    {NoValue, NotAString, Str(NotRfc3339)}
        \cup {Str(Rfc3339(d, t)) : d \in Dates, t \in Times}

NotJson == [json |-> FALSE, service |-> NoValue, env |-> NoValue, timestamp |-> NoValue]

Lines ==
    {NotJson} \cup [json : {TRUE}, service : FieldValues, env : FieldValues,
                     timestamp : TimestampValues]

\* The bytes of a character, and xxh3 as a hash of a byte sequence from a
\* seed: a fold over the bytes, HashBits wide.
Code(c) == CASE c = "a" -> 1 [] c = "_" -> 2 [] c = "1" -> 3 [] c = "2" -> 4 [] OTHER -> 0

RECURSIVE xxh3(_, _)
xxh3(seed, bytes) ==
    IF bytes = <<>> THEN seed % (2 ^ HashBits)
    ELSE xxh3((seed * 31 + Head(bytes) + 1) % (2 ^ HashBits), Tail(bytes))

\* HashBuilder::default(): seed 0.
HashBuilder_default == [seed |-> 0]

\* name.hash(&mut hasher); hasher.finish()
hash_str(builder, name) == xxh3(builder.seed, [i \in 1 .. Len(name) |-> Code(name[i])])

\* A from_raw that keeps the whole timestamp in the name.
from_raw_whole_timestamp(service, env, timestamp) ==
    LET name == service \o <<"_">> \o env \o <<"_">> \o timestamp.date \o <<timestamp.time>> IN
    [name |-> name, hash |-> hash_str(HashBuilder_default, name)]

\* MsgKey::from_raw on three strings, the timestamp being RFC 3339: the
\* name is "{service}_{env}_{date}", the hash that of the name.
from_raw(service, env, timestamp) ==
    LET name == service \o <<"_">> \o env \o <<"_">> \o timestamp.date IN
    [name |-> name, hash |-> hash_str(HashBuilder_default, name)]

\* impl PartialEq for MsgKey: the names are equal.
MsgKey_eq(a, b) == a.name = b.name

\* #[derive(Clone)]
MsgKey_clone(k) == [name |-> k.name, hash |-> k.hash]

\* impl Hash for MsgKey, into a fresh hasher of the builder, then finish():
\* the cached hash is the only thing written.
MsgKey_hash(builder, k) == xxh3(builder.seed, <<k.hash>>)

NotParsed == [kind |-> "none"]

\* LineData::parse: Err(InvalidLine(line)) when json::parse fails; a panic
\* when an expect or from_raw's unwrap fails; Ok(LineData) otherwise.
parse(l) ==
    IF ~l.json THEN [kind |-> "InvalidLine", line |-> l]
    ELSE IF l.service.t # "str" THEN [kind |-> "panic"]
    ELSE IF l.env.t # "str" THEN [kind |-> "panic"]
    ELSE IF l.timestamp.t # "str" THEN [kind |-> "panic"]
    ELSE IF ~l.timestamp.s.rfc3339 THEN [kind |-> "panic"]
    ELSE [kind |-> "LineData", orig |-> l,
          key |-> from_raw(l.service.s, l.env.s, l.timestamp.s)]

\* ----------------------------------------------------------------- state
VARIABLES
    input,                      \* keys of the lines run() has taken from the iterator
    msgkey_assigned,            \* OutputFiles.msgkey_assigned
    last_thread_with_new_file,  \* OutputFiles.last_thread_with_new_file
    rpc,                        \* where the main thread is
    ri,                         \* index of the for_each in OutputFiles::finish
    chan,                       \* per thread: messages in the bounded channel
    chan_closed,                \* per thread: the channel is closed
    wpc,                        \* per thread: where output_thread is
    cur,                        \* per thread: the message in hand and take's locals
    pool,                       \* per thread: its FilePool
    held,                       \* per thread: FilePoolEntry values owned outside the pool
    encoders,                   \* per thread: key -> GzEncoder
    dropping,                   \* per thread: files dropped unsynced, close in flight
    unsynced,                   \* keys of files closed or dropped without sync_all
    disk,                       \* key -> contents of its output file
    fed,                        \* per thread, per key: lines given to the encoder
    nfinish,                    \* per thread, per key: calls of enc.finish()
    line,                       \* JsonLinesRecv::next: the line received (at most one)
    parsed,                     \* JsonLinesRecv::next: what LineData::parse made of it
    last_key,                   \* the raw fields and MsgKey of the last line that parsed
    partition,                  \* the call of get_even_partition and the Vec it returned
    reader,                     \* read_input: its position and locals
    rx_raw,                     \* the bounded channel of lines from read_input
    yielded,                    \* what JsonLinesRecv::next has returned so far
    threads,                    \* OutputFiles.threads, by thread index
    finish_threads,             \* OutputFiles::finish: its local `threads`
    finish_calls                \* calls of OutputFiles::finish made so far

vars == <<input, msgkey_assigned, last_thread_with_new_file, rpc, ri,
          chan, chan_closed, wpc, cur, pool, held, encoders, dropping, unsynced,
          disk, fed, nfinish, line, parsed, last_key,
          partition, reader, rx_raw, yielded, threads, finish_threads, finish_calls>>

keyerVars == <<line, parsed, last_key>>

sourceVars == <<partition, reader, rx_raw, yielded>>

finishVars == <<threads, finish_threads, finish_calls>>

routerVars == <<input, msgkey_assigned, last_thread_with_new_file, rpc, ri, keyerVars,
                sourceVars, finishVars>>

\* OutputFiles::new(num_threads, max_active_files, _) and the state of each
\* spawned output_thread before its first recv.  max_active_files is an
\* argument: any value from one file per thread up to MaxActiveFiles.
max_files(max_active_files) == get_even_partition(NumThreads, max_active_files)

InitAt(pc, max_active_files) ==
    /\ input = <<>>
    /\ msgkey_assigned = EmptyMap
    /\ last_thread_with_new_file = 0
    /\ rpc = "run"
    /\ ri = 0
    /\ chan = [w \in Threads |-> <<>>]
    /\ chan_closed = [w \in Threads |-> FALSE]
    /\ wpc = [w \in Threads |-> pc]
    /\ cur = [w \in Threads |-> NoCall]
    /\ pool = [w \in Threads |-> FilePool_new(max_files(max_active_files)[w])]
    /\ held = [w \in Threads |-> EmptyMap]
    /\ encoders = [w \in Threads |-> EmptyMap]
    /\ dropping = [w \in Threads |-> {}]
    /\ unsynced = {}
    /\ disk = [k \in Keys |-> <<>>]
    /\ fed = [w \in Threads |-> [k \in Keys |-> <<>>]]
    /\ nfinish = [w \in Threads |-> [k \in Keys |-> 0]]
    /\ line = <<>>
    /\ parsed = NotParsed
    /\ last_key = <<>>
    /\ partition = <<>>
    /\ reader = [pc |-> "unspawned"]
    /\ rx_raw = [queue |-> <<>>, closed |-> FALSE]
    /\ yielded = [lines |-> <<>>, none |-> FALSE]
    /\ threads = [i \in 1 .. NumThreads |-> i - 1]
    /\ finish_threads = <<>>
    /\ finish_calls = 0

Init == \E max_active_files \in NumThreads .. MaxActiveFiles : InitAt("recv", max_active_files)

Alive(w) == wpc[w] \notin {"done", "panicked"}

\* Files of thread w whose handle goes away without a completed sync_all
\* when the thread's locals and runtime are dropped.
DroppedUnsynced(w, p) ==
    (DOMAIN p.idle_files) \cup (DOMAIN held[w])
        \cup {k \in DOMAIN p.inactive_files : p.inactive_files[k].closing_task = "sync"}
        \cup (IF wpc[w] = "reopen" /\ cur[w].closing_task = "sync" THEN {cur[w].key} ELSE {})

\* The thread ends (a panic unwinding it, or output_thread returning): the
\* receiver is dropped, which closes the channel, and every handle it owns
\* is released.  The pool is left as it was, for inspection.
ThreadEnds(w, pc, p) ==
    /\ wpc' = [wpc EXCEPT ![w] = pc]
    /\ pool' = [pool EXCEPT ![w] = p]
    /\ chan' = [chan EXCEPT ![w] = <<>>]
    /\ chan_closed' = [chan_closed EXCEPT ![w] = TRUE]
    /\ unsynced' = unsynced \cup DroppedUnsynced(w, p)
    /\ held' = [held EXCEPT ![w] = EmptyMap]
    /\ dropping' = [dropping EXCEPT ![w] = {}]
    /\ cur' = [cur EXCEPT ![w] = NoCall]

AfterTake(type) == IF type = "Api" THEN "client" ELSE "taken"

\* files.take(key).await up to its first await, called with message m in
\* hand; ch is the thread's channel after the recv that led here.
BeginTake(w, m, to_write, ch) ==
    LET t == take(pool[w], m.key) IN
    IF ~t.ok
    THEN ThreadEnds(w, "panicked", t.pool)
    ELSE /\ pool' = [pool EXCEPT ![w] = t.pool]
         /\ wpc' = [wpc EXCEPT ![w] = IF t.branch = "idle" THEN AfterTake(m.type) ELSE t.branch]
         /\ cur' = [cur EXCEPT ![w] =
                [type |-> m.type, key |-> m.key, ln |-> m.ln, to_write |-> to_write,
                 cursor |-> t.cursor, closing_task |-> t.closing_task,
                 branch |-> t.branch]]
         /\ held' = [held EXCEPT ![w] = IF t.branch = "idle" THEN Put(@, m.key, t.cursor) ELSE @]
         /\ chan' = [chan EXCEPT ![w] = ch]
         /\ UNCHANGED <<chan_closed, unsynced, dropping>>

\* An open that truncates in the reopen branch as well.
open_file_truncates(file, branch) == <<>>

\* What opening does to the contents of the file: File::create truncates,
\* OpenOptions::new().write(true).open() leaves them.
open_file(file, branch) == IF branch = "create" THEN <<>> ELSE file

\* A take that opens the file without waiting for the closing task.
closing_task_not_awaited(closing_task) == TRUE

\* closing_task.await: take goes on when the task has completed.
closing_task_awaited(closing_task) == closing_task = "done"

\* take after its awaits: the closing task of the key has completed
\* (reopen), the file is open, the key goes into taken_files.
TakeOpen(w) ==
    /\ wpc[w] \in {"reopen", "create"}
    /\ wpc[w] = "reopen" => closing_task_awaited(cur[w].closing_task)
    /\ LET r == take_opened(pool[w], cur[w].key) IN
       IF ~r.ok
       THEN ThreadEnds(w, "panicked", r.pool) /\ UNCHANGED disk
       ELSE /\ pool' = [pool EXCEPT ![w] = r.pool]
            /\ held' = [held EXCEPT ![w] = Put(@, cur[w].key, cur[w].cursor)]
            /\ disk' = [disk EXCEPT ![cur[w].key] = open_file(@, wpc[w])]
            /\ wpc' = [wpc EXCEPT ![w] = AfterTake(cur[w].type)]
            /\ UNCHANGED <<cur, chan, chan_closed, unsynced, dropping>>
    /\ UNCHANGED <<routerVars, encoders, fed, nfinish>>

\* output_thread, OutputThreadMsg::Write: recv and the call of take.
WorkerRecvWrite(w) ==
    /\ wpc[w] = "recv"
    /\ chan[w] # <<>>
    /\ Head(chan[w]).type = "Write"
    /\ BeginTake(w, Head(chan[w]), <<>>, Tail(chan[w]))
    /\ UNCHANGED <<routerVars, encoders, disk, fed, nfinish>>

\* output_thread, OutputThreadMsg::Write, after take: the encoder is looked
\* up or created, fed the line, drained to the file when it has reached the
\* mark, and the file is given back.
WorkerWriteBody(w, n) ==
    /\ wpc[w] = "taken"
    /\ cur[w].type = "Write"
    /\ LET key == cur[w].key
           enc0 == encoders_entry(encoders[w], key)
       IN
       /\ n \in 0 .. (Len(enc0.raw) + 1)
       /\ LET enc1 == enc_write_all(enc0, cur[w].ln, n)
              flush == reached_mark(enc1)
              wr == write_all(disk[key], held[w][key], enc1.buf)
              cursor == IF flush THEN wr.cursor ELSE held[w][key]
              g == give(pool[w], key, cursor)
          IN
          /\ encoders' = [encoders EXCEPT ![w] =
                 Put(@, key, IF flush THEN [enc1 EXCEPT !.buf = <<>>] ELSE enc1)]
          /\ fed' = [fed EXCEPT ![w][key] = Append(@, cur[w].ln)]
          /\ disk' = IF flush THEN [disk EXCEPT ![key] = wr.file] ELSE disk
          /\ IF ~g.ok
             THEN ThreadEnds(w, "panicked", g.pool)
             ELSE /\ pool' = [pool EXCEPT ![w] = g.pool]
                  /\ held' = [held EXCEPT ![w] = Remove(@, key)]
                  /\ wpc' = [wpc EXCEPT ![w] = "recv"]
                  /\ cur' = [cur EXCEPT ![w] = NoCall]
                  /\ UNCHANGED <<chan, chan_closed, unsynced, dropping>>
    /\ UNCHANGED <<routerVars, nfinish>>

\* output_thread, OutputThreadMsg::Finish: recv; the loop over the encoders
\* starts.
WorkerRecvFinish(w) ==
    /\ wpc[w] = "recv"
    /\ chan[w] # <<>>
    /\ Head(chan[w]).type = "Finish"
    /\ chan' = [chan EXCEPT ![w] = Tail(@)]
    /\ wpc' = [wpc EXCEPT ![w] = "fin"]
    /\ UNCHANGED <<routerVars, chan_closed, cur, pool, held, encoders, dropping, unsynced,
                   disk, fed, nfinish>>

\* One turn of `for (key, enc) in encoders`: enc.finish(), then the call of
\* take.  The HashMap yields its keys in any order.
WorkerFinishKey(w, k) ==
    /\ wpc[w] = "fin"
    /\ k \in DOMAIN encoders[w]
    /\ encoders' = [encoders EXCEPT ![w] = Remove(@, k)]
    /\ nfinish' = [nfinish EXCEPT ![w][k] = @ + 1]
    /\ BeginTake(w, [type |-> "Finish", key |-> k, ln |-> 0], enc_finish(encoders[w][k]), chan[w])
    /\ UNCHANGED <<routerVars, disk, fed>>

\* The rest of the turn: f.write_all(to_write), then f goes out of scope.
\* Dropping a tokio_uring File closes it without sync_all; the key stays in
\* taken_files.
WorkerFinishBody(w) ==
    /\ wpc[w] = "taken"
    /\ cur[w].type = "Finish"
    /\ LET key == cur[w].key
           wr == write_all(disk[key], held[w][key], cur[w].to_write)
       IN
       /\ disk' = [disk EXCEPT ![key] = wr.file]
       /\ held' = [held EXCEPT ![w] = Remove(@, key)]
       /\ dropping' = [dropping EXCEPT ![w] = @ \cup {key}]
       /\ unsynced' = unsynced \cup {key}
    /\ wpc' = [wpc EXCEPT ![w] = "fin"]
    /\ cur' = [cur EXCEPT ![w] = NoCall]
    /\ UNCHANGED <<routerVars, chan, chan_closed, pool, encoders, fed, nfinish>>

\* After the loop: the assert, rx.close(), return.
WorkerFinishExit(w) ==
    /\ wpc[w] = "fin"
    /\ DOMAIN encoders[w] = {}
    /\ ThreadEnds(w, IF has_no_idle_or_inactive_files(pool[w]) THEN "done" ELSE "panicked",
                  pool[w])
    /\ UNCHANGED <<routerVars, encoders, disk, fed, nfinish>>

\* The task spawned by close_file: sync_all completes, then close completes.
TaskStep(s) == IF s = "sync" THEN "close" ELSE "done"

CloseTaskRun(w, k) ==
    /\ Alive(w)
    /\ k \in DOMAIN pool[w].inactive_files
    /\ pool[w].inactive_files[k].closing_task # "done"
    /\ pool' = [pool EXCEPT ![w].inactive_files[k].closing_task = TaskStep(@)]
    /\ UNCHANGED <<routerVars, chan, chan_closed, wpc, cur, held, encoders, dropping,
                   unsynced, disk, fed, nfinish>>

\* The same task, while take holds its JoinHandle and awaits it.
AwaitedTaskRun(w) ==
    /\ wpc[w] = "reopen"
    /\ cur[w].closing_task # "done"
    /\ cur' = [cur EXCEPT ![w].closing_task = TaskStep(@)]
    /\ UNCHANGED <<routerVars, chan, chan_closed, wpc, pool, held, encoders, dropping,
                   unsynced, disk, fed, nfinish>>

\* The close submitted by the drop of a File completes.
DropClose(w, k) ==
    /\ Alive(w)
    /\ k \in dropping[w]
    /\ dropping' = [dropping EXCEPT ![w] = @ \ {k}]
    /\ UNCHANGED <<routerVars, chan, chan_closed, wpc, cur, pool, held, encoders,
                   unsynced, disk, fed, nfinish>>

workerVars == <<chan_closed, wpc, cur, pool, held, encoders, dropping, unsynced, disk,
                fed, nfinish>>

\* ---------------------------------------------------- main.rs, output.rs
\* A write_line that takes the rotating cursor for every line.
write_line_thread_unsticky(assigned, last, k) == last

\* OutputFiles::write_line: the thread of the key (assigned round-robin on
\* first sight), and the new value of the rotating cursor.
write_line_thread(assigned, last, k) == IF k \in DOMAIN assigned THEN assigned[k] ELSE last

\* A cursor that advances on every line, known key or not.
write_line_last_always(assigned, last, k) == (last + 1) % NumThreads

write_line_last(assigned, last, k) ==
    IF k \in DOMAIN assigned THEN last ELSE (last + 1) % NumThreads

\* A channel that puts a new message in front of the waiting ones.
send_overtakes(ch, m) == <<m>> \o ch

\* tx.send(m) on a kanal channel with room: m goes behind the messages that
\* wait.
send(ch, m) == Append(ch, m)

\* Keys are told apart by equality alone, so the distinct keys of an input
\* are named in the order in which they first occur.
FirstUnseen == Cardinality(DOMAIN msgkey_assigned) + 1

\* run: the iterator yields a line that parses, with key k; write_line
\* sends it (send blocks while the channel is full).
RouterWriteLine(k) ==
    /\ rpc = "run"
    /\ Len(input) < MaxLines
    /\ k \in DOMAIN msgkey_assigned \/ k = FirstUnseen
    /\ LET thread_idx == write_line_thread(msgkey_assigned, last_thread_with_new_file, k) IN
       /\ ~chan_closed[thread_idx]
       /\ Len(chan[thread_idx]) < ChanBound
       /\ chan' = [chan EXCEPT ![thread_idx] = send(@, MsgWrite(k, Len(input) + 1))]
       /\ msgkey_assigned' = Put(msgkey_assigned, k, thread_idx)
    /\ last_thread_with_new_file' =
           write_line_last(msgkey_assigned, last_thread_with_new_file, k)
    /\ input' = Append(input, k)
    /\ UNCHANGED <<rpc, ri, keyerVars, sourceVars, finishVars, workerVars>>

\* A finish that leaves self.threads as it is.
drain_keeps(ts) == [drained |-> ts, threads |-> ts]

\* self.threads.drain(..).collect(): the local Vec gets every ThreadInfo and
\* self.threads is left empty.
drain(ts) == [drained |-> ts, threads |-> <<>>]

\* OutputFiles::finish is called: self.threads is drained into the local
\* `threads`.  With an empty local none of the three for_each does
\* anything and finish returns at once.
FinishCall ==
    LET d == drain(threads) IN
    /\ threads' = d.threads
    /\ finish_threads' = d.drained
    /\ finish_calls' = finish_calls + 1
    /\ rpc' = IF d.drained = <<>> THEN "done" ELSE "finish_send"
    /\ ri' = 0

\* run: the iterator ends (None).  run returns and `output` is dropped; its
\* Drop calls finish.
RouterEndOfInput ==
    /\ rpc = "run"
    /\ FinishCall
    /\ UNCHANGED <<input, msgkey_assigned, last_thread_with_new_file, chan, keyerVars,
                   sourceVars, workerVars>>

\* run: the iterator yields a line that does not parse; run panics and the
\* unwinding drops `output`, whose Drop calls finish.
RouterInvalidLine ==
    /\ rpc = "run"
    /\ Len(input) < MaxLines
    /\ FinishCall
    /\ UNCHANGED <<input, msgkey_assigned, last_thread_with_new_file, chan, keyerVars,
                   sourceVars, workerVars>>

\* The thread the for_each of finish is at, and whether it is the last.
finish_thread == finish_threads[ri + 1]

finish_last == ri + 1 = Len(finish_threads)

\* OutputFiles::finish, first for_each: send Finish to the thread at ri.
RouterSendFinish ==
    /\ rpc = "finish_send"
    /\ ~chan_closed[finish_thread]
    /\ Len(chan[finish_thread]) < ChanBound
    /\ chan' = [chan EXCEPT ![finish_thread] = send(@, MsgFinish)]
    /\ rpc' = IF finish_last THEN "finish_wait" ELSE rpc
    /\ ri' = IF finish_last THEN 0 ELSE ri + 1
    /\ UNCHANGED <<input, msgkey_assigned, last_thread_with_new_file, keyerVars,
                   sourceVars, finishVars, workerVars>>

\* OutputFiles::finish, second for_each: the loop leaves when the channel
\* of the thread at ri is empty, and closes it.
RouterWaitEmpty ==
    /\ rpc = "finish_wait"
    /\ chan[finish_thread] = <<>>
    /\ chan_closed' = [chan_closed EXCEPT ![finish_thread] = TRUE]
    /\ rpc' = IF finish_last THEN "finish_join" ELSE rpc
    /\ ri' = IF finish_last THEN 0 ELSE ri + 1
    /\ UNCHANGED <<input, msgkey_assigned, last_thread_with_new_file, chan, keyerVars,
                   sourceVars, finishVars, wpc, cur, pool, held, encoders, dropping,
                   unsynced, disk, fed, nfinish>>

\* OutputFiles::finish, third for_each: join the thread at ri; unwrap
\* panics when the thread panicked.
RouterJoin ==
    /\ rpc = "finish_join"
    /\ ~Alive(finish_thread)
    /\ rpc' = IF wpc[finish_thread] = "panicked" THEN "panicked"
              ELSE IF finish_last THEN "done" ELSE rpc
    /\ ri' = IF wpc[finish_thread] = "panicked" \/ finish_last THEN 0 ELSE ri + 1
    /\ UNCHANGED <<input, msgkey_assigned, last_thread_with_new_file, chan, keyerVars,
                   sourceVars, finishVars, workerVars>>

Next ==
    \/ \E k \in Keys : RouterWriteLine(k)
    \/ RouterEndOfInput
    \/ RouterInvalidLine
    \/ RouterSendFinish
    \/ RouterWaitEmpty
    \/ RouterJoin
    \/ \E w \in Threads : WorkerRecvWrite(w)
    \/ \E w \in Threads : TakeOpen(w)
    \/ \E w \in Threads, n \in 0 .. MaxLines : WorkerWriteBody(w, n)
    \/ \E w \in Threads : WorkerRecvFinish(w)
    \/ \E w \in Threads, k \in Keys : WorkerFinishKey(w, k)
    \/ \E w \in Threads : WorkerFinishBody(w)
    \/ \E w \in Threads : WorkerFinishExit(w)
    \/ \E w \in Threads, k \in Keys : CloseTaskRun(w, k)
    \/ \E w \in Threads : AwaitedTaskRun(w)
    \/ \E w \in Threads, k \in Keys : DropClose(w, k)

Spec == Init /\ [][Next]_vars

\* The steps of the main thread, of output thread w, and of the tasks and
\* submitted closes on w's runtime.
RouterNext ==
    \/ \E k \in Keys : RouterWriteLine(k)
    \/ RouterEndOfInput
    \/ RouterInvalidLine
    \/ RouterSendFinish
    \/ RouterWaitEmpty
    \/ RouterJoin

WorkerNext(w) ==
    \/ WorkerRecvWrite(w)
    \/ TakeOpen(w)
    \/ \E n \in 0 .. MaxLines : WorkerWriteBody(w, n)
    \/ WorkerRecvFinish(w)
    \/ \E k \in Keys : WorkerFinishKey(w, k)
    \/ WorkerFinishBody(w)
    \/ WorkerFinishExit(w)
    \/ \E k \in Keys : CloseTaskRun(w, k)
    \/ AwaitedTaskRun(w)
    \/ \E k \in Keys : DropClose(w, k)

\* Every OS thread that can run does run: the main thread and each output
\* thread (with the tasks of its runtime) take their steps.
FairSpec == Spec /\ WF_vars(RouterNext) /\ \A w \in Threads : WF_vars(WorkerNext(w))

\* SpecFinish: a caller that calls finish itself and lets Drop call it
\* again, and so on up to MaxFinishCalls calls: finish is called once more
\* after a call has returned.
FinishAgain ==
    /\ rpc = "done"
    /\ finish_calls < MaxFinishCalls
    /\ FinishCall
    /\ UNCHANGED <<input, msgkey_assigned, last_thread_with_new_file, chan, keyerVars,
                   sourceVars, workerVars>>

NextFinish == Next \/ FinishAgain

SpecFinish == Init /\ [][NextFinish]_vars


\* ------------------------------------------- a client of one FilePool
\* SpecPool: the pool of thread PoolThread, called by a client that takes,
\* writes through, and gives back files of PoolKeyRange in any order, and
\* calls finish.  A violated precondition panics the client ("panicked").
PoolThread == 0

PoolKeyRange == 1 .. PoolKeys

ApiCall(k) == [type |-> "Api", key |-> k, ln |-> 0]

ApiTake(k) ==
    /\ wpc[PoolThread] = "client"
    /\ BeginTake(PoolThread, ApiCall(k), <<>>, chan[PoolThread])
    /\ UNCHANGED <<routerVars, encoders, disk, fed, nfinish>>

\* entry.write_all(one chunk) on an entry the client holds.
ApiWrite(k) ==
    /\ wpc[PoolThread] = "client"
    /\ k \in DOMAIN held[PoolThread]
    /\ held[PoolThread][k] < MaxCursor
    /\ LET wr == write_all(disk[k], held[PoolThread][k], <<1>>) IN
       /\ disk' = [disk EXCEPT ![k] = wr.file]
       /\ held' = [held EXCEPT ![PoolThread][k] = wr.cursor]
    /\ UNCHANGED <<routerVars, chan, chan_closed, wpc, cur, pool, encoders, dropping,
                   unsynced, fed, nfinish>>

\* give(k, entry): the entry taken for k when the client holds it, any
\* other entry when it does not.  The locals of the take that returned the
\* entry are gone by then.
ApiGive(k) ==
    /\ wpc[PoolThread] = "client"
    /\ LET g == give(pool[PoolThread], k,
                     IF k \in DOMAIN held[PoolThread] THEN held[PoolThread][k] ELSE 0)
       IN
       IF ~g.ok
       THEN ThreadEnds(PoolThread, "panicked", g.pool)
       ELSE /\ pool' = [pool EXCEPT ![PoolThread] = g.pool]
            /\ held' = [held EXCEPT ![PoolThread] = Remove(@, k)]
            /\ cur' = [cur EXCEPT ![PoolThread] = IF @.key = k THEN NoCall ELSE @]
            /\ UNCHANGED <<chan, chan_closed, wpc, unsynced, dropping>>
    /\ UNCHANGED <<routerVars, encoders, disk, fed, nfinish>>

\* FilePool::finish up to its first await: every idle file is closed.
ApiFinish ==
    /\ wpc[PoolThread] = "client"
    /\ LET c == finish_close(pool[PoolThread]) IN
       IF ~c.ok
       THEN ThreadEnds(PoolThread, "panicked", c.pool)
       ELSE /\ pool' = [pool EXCEPT ![PoolThread] = c.pool]
            /\ wpc' = [wpc EXCEPT ![PoolThread] = "pool_finish"]
            /\ UNCHANGED <<chan, chan_closed, cur, held, unsynced, dropping>>
    /\ UNCHANGED <<routerVars, encoders, disk, fed, nfinish>>

\* FilePool::finish returns: every closing task has been awaited.
ApiFinishDrain ==
    /\ wpc[PoolThread] = "pool_finish"
    /\ \A k \in DOMAIN pool[PoolThread].inactive_files :
           pool[PoolThread].inactive_files[k].closing_task = "done"
    /\ LET d == finish_drain(pool[PoolThread]) IN
       IF ~d.ok
       THEN ThreadEnds(PoolThread, "panicked", d.pool)
       ELSE /\ pool' = [pool EXCEPT ![PoolThread] = d.pool]
            /\ wpc' = [wpc EXCEPT ![PoolThread] = "client"]
            /\ UNCHANGED <<chan, chan_closed, cur, held, unsynced, dropping>>
    /\ UNCHANGED <<routerVars, encoders, disk, fed, nfinish>>

InitPool == \E max_active_files \in NumThreads .. MaxActiveFiles : InitAt("client", max_active_files)

NextPool ==
    \/ \E k \in PoolKeyRange : ApiTake(k)
    \/ \E k \in PoolKeyRange : ApiWrite(k)
    \/ \E k \in PoolKeyRange : ApiGive(k)
    \/ ApiFinish
    \/ ApiFinishDrain
    \/ TakeOpen(PoolThread)
    \/ \E k \in PoolKeyRange : CloseTaskRun(PoolThread, k)
    \/ AwaitedTaskRun(PoolThread)

SpecPool == InitPool /\ [][NextPool]_vars


\* ------------------------------------------- JsonLinesRecv::next, the keyer
\* SpecKey: the iterator receives any line and parses it; after a line that
\* gave a result (a LineData or an InvalidLine) it can be asked again.
\* last_key remembers the raw fields and the key of the last LineData.
RecvLine(l) ==
    /\ line = <<>> \/ parsed.kind \in {"LineData", "InvalidLine"}
    /\ line' = <<l>>
    /\ parsed' = NotParsed
    /\ last_key' = IF parsed.kind = "LineData"
                   THEN <<[service |-> line[1].service.s, env |-> line[1].env.s,
                           date |-> line[1].timestamp.s.date,
                           time |-> line[1].timestamp.s.time, key |-> parsed.key]>>
                   ELSE last_key
    /\ UNCHANGED <<input, msgkey_assigned, last_thread_with_new_file, rpc, ri, chan,
                   workerVars, sourceVars, finishVars>>

ParseLine ==
    /\ line # <<>>
    /\ parsed = NotParsed
    /\ parsed' = parse(line[1])
    /\ UNCHANGED <<input, msgkey_assigned, last_thread_with_new_file, rpc, ri, chan,
                   workerVars, sourceVars, finishVars, line, last_key>>

InitKey == InitAt("recv", MaxActiveFiles)

NextKey == (\E l \in Lines : RecvLine(l)) \/ ParseLine

SpecKey == InitKey /\ [][NextKey]_vars


\* ------------------------------------- FilePoolEntry::write_all, step by step
\* SpecWrite: the client takes the file of WriteKey and calls write_all on
\* the entry with any buffer; every write_at returns any count from 0 to
\* the length of the buffer it was given, or an error.  cur holds the call:
\* to_write (the local), and for reference buf (the argument), cursor and
\* file (the entry's cursor and the file's contents at the call) and
\* written (the count the last write_at returned).
WriteKey == 1

Bytes == 1 .. NumBytes

Buffers == UNION {[1 .. n -> Bytes] : n \in 0 .. MaxBuf}

NoneYet == -1

\* A loop body that does not advance the cursor.
write_all_iter_keeps_offset(file, cursor, to_write, written) ==
    [file |-> write_at(file, SubSeq(to_write, 1, written), cursor),
     cursor |-> cursor,
     to_write |-> SubSeq(to_write, written + 1, Len(to_write))]

\* One turn of write_all's loop after write_at(to_write, cursor) returned
\* Ok(written): the first `written` bytes are in the file at the cursor,
\* the cursor advances by written, to_write keeps the rest (split_off).
write_all_iter(file, cursor, to_write, written) ==
    [file |-> write_at(file, SubSeq(to_write, 1, written), cursor),
     cursor |-> cursor + written,
     to_write |-> SubSeq(to_write, written + 1, Len(to_write))]

\* entry.write_all(buf) is called.
WriteAllCall(buf) ==
    /\ wpc[PoolThread] = "client"
    /\ WriteKey \in DOMAIN held[PoolThread]
    /\ Len(disk[WriteKey]) + Len(buf) <= MaxFileLen
    /\ cur' = [cur EXCEPT ![PoolThread] =
           [type |-> "write_all", key |-> WriteKey, ln |-> 0, to_write |-> buf,
            cursor |-> held[PoolThread][WriteKey], closing_task |-> "done",
            branch |-> "none", buf |-> buf, file |-> disk[WriteKey],
            written |-> NoneYet]]
    /\ wpc' = [wpc EXCEPT ![PoolThread] = "loop"]
    /\ UNCHANGED <<routerVars, chan, chan_closed, pool, held, encoders, dropping,
                   unsynced, disk, fed, nfinish>>

\* The head of the loop: break and return Ok(()) when to_write is empty,
\* submit write_at otherwise.
WriteAllLoop ==
    /\ wpc[PoolThread] = "loop"
    /\ IF Len(cur[PoolThread].to_write) = 0
       THEN /\ wpc' = [wpc EXCEPT ![PoolThread] = "client"]
            /\ cur' = [cur EXCEPT ![PoolThread].type = "write_all_ok"]
       ELSE /\ wpc' = [wpc EXCEPT ![PoolThread] = "write_at"]
            /\ cur' = cur
    /\ UNCHANGED <<routerVars, chan, chan_closed, pool, held, encoders, dropping,
                   unsynced, disk, fed, nfinish>>

\* write_at returns Ok(written), 0 <= written <= to_write.len().
WriteAtOk(written) ==
    /\ wpc[PoolThread] = "write_at"
    /\ written \in 0 .. Len(cur[PoolThread].to_write)
    /\ LET it == write_all_iter(disk[WriteKey], held[PoolThread][WriteKey],
                                 cur[PoolThread].to_write, written)
       IN
       /\ disk' = [disk EXCEPT ![WriteKey] = it.file]
       /\ held' = [held EXCEPT ![PoolThread][WriteKey] = it.cursor]
       /\ cur' = [cur EXCEPT ![PoolThread].to_write = it.to_write,
                              ![PoolThread].written = written]
    /\ wpc' = [wpc EXCEPT ![PoolThread] = "loop"]
    /\ UNCHANGED <<routerVars, chan, chan_closed, pool, encoders, dropping, unsynced,
                   fed, nfinish>>

\* write_at returns Err: `written?` returns it from write_all, and the
\* caller's unwrap panics.
WriteAtErr ==
    /\ wpc[PoolThread] = "write_at"
    /\ ThreadEnds(PoolThread, "panicked", pool[PoolThread])
    /\ UNCHANGED <<routerVars, encoders, disk, fed, nfinish>>

InitWrite == \E max_active_files \in NumThreads .. MaxActiveFiles : InitAt("client", max_active_files)

NextWrite ==
    \/ ApiTake(WriteKey)
    \/ TakeOpen(PoolThread)
    \/ \E buf \in Buffers : WriteAllCall(buf)
    \/ WriteAllLoop
    \/ \E written \in 0 .. MaxBuf : WriteAtOk(written)
    \/ WriteAtErr

SpecWrite == InitWrite /\ [][NextWrite]_vars


\* ----------------------------------------------------- get_even_partition
\* SpecPartition: get_even_partition is called once, with any number of
\* buckets from 1 to MaxBuckets and any sum up to MaxSum; partition keeps
\* the arguments and the Vec returned.
GetEvenPartition(buckets, sum) ==
    /\ partition = <<>>
    /\ partition' = <<[buckets |-> buckets, sum |-> sum, v |-> get_even_partition(buckets, sum)]>>
    /\ UNCHANGED <<input, msgkey_assigned, last_thread_with_new_file, rpc, ri, chan,
                   keyerVars, workerVars, finishVars, reader, rx_raw, yielded>>

NextPartition == \E buckets \in 1 .. MaxBuckets : \E sum \in 0 .. MaxSum : GetEvenPartition(buckets, sum)

SpecPartition == Init /\ [][NextPartition]_vars

\* --------------------------------------------- input.rs, the line source
\* SpecInput: read_input in its thread and JsonLinesRecv::next in the main
\* thread.  The input is told by its decoded bytes, Newline or another
\* byte.  reader holds read_input's position and what it owns: file (the
\* bytes not yet read), dec (bytes inside the MultiGzDecoder), rx_decoded
\* (bytes in the byte channel), curr_line; input is the whole file.  rx_raw
\* is the channel of lines, yielded what the iterator has returned.
Newline == 0

InputBytes == Bytes \cup {Newline}

InputFiles == UNION {[1 .. n -> InputBytes] : n \in 0 .. MaxInputLen}

\* JsonLinesRecv::spawn_new(input): the thread of read_input starts.
spawn_new(file) ==
    /\ reader.pc = "unspawned"
    /\ reader' = [pc |-> "read", input |-> file, file |-> file, dec |-> <<>>,
                  rx_decoded |-> <<>>, curr_line |-> <<>>]
    /\ UNCHANGED <<input, msgkey_assigned, last_thread_with_new_file, rpc, ri, chan,
                   keyerVars, workerVars, finishVars, partition, rx_raw, yielded>>

\* read_input, top of the loop: read_next returns the next n bytes, none
\* only at the end of the file; the decoder takes them and writes m of the
\* bytes it holds to the byte channel, all of them on the flush that
\* follows an empty read.
ReadNext(n, m) ==
    /\ reader.pc = "read"
    /\ n <= Len(reader.file)
    /\ n = 0 <=> reader.file = <<>>
    /\ LET dec1 == reader.dec \o SubSeq(reader.file, 1, n) IN
       /\ m <= Len(dec1)
       /\ n = 0 => m = Len(dec1)
       /\ reader' = [reader EXCEPT
              !.pc = IF n = 0 THEN "drain_eof" ELSE "drain",
              !.file = SubSeq(@, n + 1, Len(@)),
              !.dec = SubSeq(dec1, m + 1, Len(dec1)),
              !.rx_decoded = @ \o SubSeq(dec1, 1, m)]
    /\ UNCHANGED <<input, msgkey_assigned, last_thread_with_new_file, rpc, ri, chan,
                   keyerVars, workerVars, finishVars, partition, rx_raw, yielded>>

\* tx.send(ln) on the bounded channel of lines, with room.
send_line(queue, ln) == Append(queue, ln)

\* while let Some(b) = rx_decoded.try_recv(): one byte.  A newline sends
\* curr_line (send blocks while the channel is full) and starts a new one;
\* any other byte is pushed onto curr_line.
DrainByte ==
    /\ reader.pc \in {"drain", "drain_eof"}
    /\ reader.rx_decoded # <<>>
    /\ LET b == Head(reader.rx_decoded) IN
       IF b = Newline
       THEN /\ Len(rx_raw.queue) < LineChanBound
            /\ rx_raw' = [rx_raw EXCEPT !.queue = send_line(@, reader.curr_line)]
            /\ reader' = [reader EXCEPT !.rx_decoded = Tail(@), !.curr_line = <<>>]
       ELSE /\ reader' = [reader EXCEPT !.rx_decoded = Tail(@), !.curr_line = Append(@, b)]
            /\ UNCHANGED rx_raw
    /\ UNCHANGED <<input, msgkey_assigned, last_thread_with_new_file, rpc, ri, chan,
                   keyerVars, workerVars, finishVars, partition, yielded>>

\* try_recv returns None: back to the read, or on to the end of input.
DrainEnd ==
    /\ reader.pc \in {"drain", "drain_eof"}
    /\ reader.rx_decoded = <<>>
    /\ reader' = [reader EXCEPT !.pc = IF @ = "drain" THEN "read" ELSE "send_last"]
    /\ UNCHANGED <<input, msgkey_assigned, last_thread_with_new_file, rpc, ri, chan,
                   keyerVars, workerVars, finishVars, partition, rx_raw, yielded>>

\* if curr_line.len() > 0 { tx.send(curr_line) }
SendLast ==
    /\ reader.pc = "send_last"
    /\ IF Len(reader.curr_line) > 0
       THEN /\ Len(rx_raw.queue) < LineChanBound
            /\ rx_raw' = [rx_raw EXCEPT !.queue = send_line(@, reader.curr_line)]
       ELSE UNCHANGED rx_raw
    /\ reader' = [reader EXCEPT !.pc = "wait_empty", !.curr_line = <<>>]
    /\ UNCHANGED <<input, msgkey_assigned, last_thread_with_new_file, rpc, ri, chan,
                   keyerVars, workerVars, finishVars, partition, yielded>>

\* A test that says "empty" whatever the channel holds.
tx_is_empty_always(queue) == TRUE

\* tx.is_empty()
tx_is_empty(queue) == Len(queue) = 0

\* loop { if tx.is_empty() { tx.close(); return; } }
CloseWhenEmpty ==
    /\ reader.pc = "wait_empty"
    /\ tx_is_empty(rx_raw.queue)
    /\ rx_raw' = [rx_raw EXCEPT !.closed = TRUE]
    /\ reader' = [reader EXCEPT !.pc = "done"]
    /\ UNCHANGED <<input, msgkey_assigned, last_thread_with_new_file, rpc, ri, chan,
                   keyerVars, workerVars, finishVars, partition, yielded>>

\* JsonLinesRecv::next, rx_raw.recv() returns Ok(ln): the line is parsed
\* and yielded.
IterNext ==
    /\ ~yielded.none
    /\ rx_raw.queue # <<>>
    /\ yielded' = [yielded EXCEPT !.lines = Append(@, Head(rx_raw.queue))]
    /\ rx_raw' = [rx_raw EXCEPT !.queue = Tail(@)]
    /\ UNCHANGED <<input, msgkey_assigned, last_thread_with_new_file, rpc, ri, chan,
                   keyerVars, workerVars, finishVars, partition, reader>>

\* JsonLinesRecv::next, rx_raw.recv() returns Err(Closed): None.  On a
\* closed channel recv may fail whatever is still queued.
IterNone ==
    /\ ~yielded.none
    /\ rx_raw.closed
    /\ yielded' = [yielded EXCEPT !.none = TRUE]
    /\ UNCHANGED <<input, msgkey_assigned, last_thread_with_new_file, rpc, ri, chan,
                   keyerVars, workerVars, finishVars, partition, reader, rx_raw>>

NextInput ==
    \/ \E file \in InputFiles : spawn_new(file)
    \/ \E n \in 0 .. MaxRead : \E m \in 0 .. MaxInputLen : ReadNext(n, m)
    \/ DrainByte
    \/ DrainEnd
    \/ SendLast
    \/ CloseWhenEmpty
    \/ IterNext
    \/ IterNone

SpecInput == Init /\ [][NextInput]_vars

\* ------------------------------------------------------------- properties
RECURSIVE SumOver(_, _)
SumOver(f, S) ==
    IF S = {} THEN 0
    ELSE LET x == CHOOSE y \in S : TRUE IN f[x] + SumOver(f, S \ {x})

\* Handles of thread w that are open: held by the pool (idle), held outside
\* it, owned by a closing task that has not completed, or dropped with the
\* close still in flight.
OpenHandles(w) ==
    IF ~Alive(w) THEN 0
    ELSE Cardinality(DOMAIN pool[w].idle_files)
         + Cardinality(DOMAIN held[w])
         + Cardinality({k \in DOMAIN pool[w].inactive_files :
                            pool[w].inactive_files[k].closing_task # "done"})
         + (IF wpc[w] = "reopen" /\ cur[w].closing_task # "done" THEN 1 ELSE 0)
         + Cardinality(dropping[w])

TotalOpenHandles == SumOver([w \in Threads |-> OpenHandles(w)], Threads)

\* The positions of the input lines with key k, in input order.
LinesOf(k) ==
    LET F[i \in 0 .. Len(input)] ==
            IF i = 0 THEN <<>>
            ELSE IF input[i] = k THEN Append(F[i - 1], i) ELSE F[i - 1]
    IN F[Len(input)]

\* The lines with key k waiting in the channel of thread w, in order.
ChanLines(w, k) ==
    LET F[i \in 0 .. Len(chan[w])] ==
            IF i = 0 THEN <<>>
            ELSE IF chan[w][i].type = "Write" /\ chan[w][i].key = k
                 THEN Append(F[i - 1], chan[w][i].ln) ELSE F[i - 1]
    IN F[Len(chan[w])]

\* The line thread w has received and not yet fed to its encoder.
InHand(w, k) ==
    IF cur[w].type = "Write" /\ cur[w].key = k THEN <<cur[w].ln>> ELSE <<>>

IsLine(t) == t > 0

LineChunks(s) == SelectSeq(s, IsLine)

IsPrefix(s, t) == Len(s) <= Len(t) /\ s = SubSeq(t, 1, Len(s))

AssignedTo(k, w) == k \in DOMAIN msgkey_assigned /\ msgkey_assigned[k] = w

SeenKeys(w) == {k \in Keys : fed[w][k] # <<>>}

\* C1: at every instant the number of file handles that are open (opened
\* and not yet closed, the handles of in-flight closing tasks included),
\* summed over the threads, is at most max_active_files.
C1_HandleBound ==
    TotalOpenHandles <= SumOver([w \in Threads |-> pool[w].max_open_files], Threads)

\* C2: in every state of a FilePool |taken_files| + |idle_files| is at most
\* max_open_files; no step raises the sum by more than one, a step raises it
\* only from below the limit, and a give (taken_files loses a key) leaves
\* it as it was.
C2_OpenFilesInv ==
    \A w \in Threads : open_files(pool[w]) <= pool[w].max_open_files

C2_OpenFilesStep ==
    \A w \in Threads :
        /\ open_files(pool'[w]) <= open_files(pool[w]) + 1
        /\ open_files(pool'[w]) > open_files(pool[w])
               => open_files(pool[w]) < pool[w].max_open_files
        /\ (pool'[w].taken_files # pool[w].taken_files
                /\ pool'[w].taken_files \subseteq pool[w].taken_files)
               => open_files(pool'[w]) = open_files(pool[w])

C2_OpenFilesBound == []C2_OpenFilesInv /\ [][C2_OpenFilesStep]_vars

\* C2 witness: the pool is at its limit with a file taken and another one
\* evicted to make room.
C2_Witness ==
    /\ open_files(pool[PoolThread]) = pool[PoolThread].max_open_files
    /\ pool[PoolThread].taken_files # {}
    /\ DOMAIN pool[PoolThread].inactive_files # {}
    /\ wpc[PoolThread] = "client"

\* C3: in every state of a FilePool a key is in at most one of taken_files,
\* idle_files and inactive_files.
C3_AtMostOneState ==
    \A w \in Threads :
        /\ pool[w].taken_files \cap DOMAIN pool[w].idle_files = {}
        /\ pool[w].taken_files \cap DOMAIN pool[w].inactive_files = {}
        /\ (DOMAIN pool[w].idle_files) \cap (DOMAIN pool[w].inactive_files) = {}

\* C3 witness: three keys, one taken, one idle, one inactive, after a
\* finish and an eviction.
C3_Witness ==
    /\ pool[PoolThread].taken_files # {}
    /\ DOMAIN pool[PoolThread].idle_files # {}
    /\ DOMAIN pool[PoolThread].inactive_files # {}
    /\ \E k \in PoolKeyRange : Len(disk[k]) > 0 /\ k \in DOMAIN pool[PoolThread].idle_files

\* C4: for every key, the lines fed to its encoder, then the line in hand,
\* then the lines waiting in the channel, are the input lines of that key
\* in input order (on the thread of the key; nothing anywhere else); what
\* the encoder has put out and still holds is what it was fed, in that
\* order; and the lines in the file are a prefix of the key's input lines.
C4_OrderPreserved ==
    \A w \in Threads, k \in Keys :
        /\ fed[w][k] \o InHand(w, k) \o ChanLines(w, k)
               = (IF AssignedTo(k, w) THEN LinesOf(k) ELSE <<>>)
        /\ k \in DOMAIN encoders[w]
               => LineChunks(disk[k]) \o encoders[w][k].buf \o encoders[w][k].raw = fed[w][k]
        /\ IsPrefix(LineChunks(disk[k]), LinesOf(k))

\* C4 witness: every Write has been processed, and some key got two lines
\* with a line of another key between them.
C4_Witness ==
    /\ rpc # "run"
    /\ \A w \in Threads : wpc[w] = "fin" /\ chan[w] = <<>>
    /\ \E w \in Threads, k \in Keys :
           /\ Len(fed[w][k]) >= 2
           /\ fed[w][k][2] > fed[w][k][1] + 1
           /\ Len(LineChunks(disk[k])) >= 2

\* Where line i is: in a channel, in the hand of a thread, or fed.
InChan(w, i) == {j \in 1 .. Len(chan[w]) : chan[w][j].type = "Write" /\ chan[w][j].ln = i}

InFed(w, k, i) == {j \in 1 .. Len(fed[w][k]) : fed[w][k][j] = i}

Copies(i) ==
    SumOver([w \in Threads |->
                Cardinality(InChan(w, i))
                + (IF cur[w].type = "Write" /\ cur[w].ln = i THEN 1 ELSE 0)
                + SumOver([k \in Keys |-> Cardinality(InFed(w, k, i))], Keys)],
            Threads)

OwnLines(s, k) == \A j \in 1 .. Len(s) : IsLine(s[j]) => (s[j] <= Len(input) /\ input[s[j]] = k)

\* C5: every line taken from the input is in exactly one place (one Write
\* message in the channel of one thread, or in that thread's hand, or fed
\* once to an encoder), always under its own key; an encoder, a buffer on
\* its way to a file and a file hold lines of their own key only; and when
\* finish has returned each line is in the file of its key exactly once.
C5_ExactlyOnce ==
    /\ \A i \in 1 .. Len(input) : Copies(i) = 1
    /\ \A w \in Threads :
           /\ \A j \in 1 .. Len(chan[w]) :
                  chan[w][j].type = "Write" => OwnLines(<<chan[w][j].ln>>, chan[w][j].key)
           /\ cur[w].type = "Write" => OwnLines(<<cur[w].ln>>, cur[w].key)
           /\ cur[w].type = "Finish" => OwnLines(cur[w].to_write, cur[w].key)
           /\ \A k \in Keys : OwnLines(fed[w][k], k)
           /\ \A k \in DOMAIN encoders[w] :
                  OwnLines(encoders[w][k].buf, k) /\ OwnLines(encoders[w][k].raw, k)
    /\ \A k \in Keys : OwnLines(disk[k], k)
    /\ rpc = "done" =>
           \A i \in 1 .. Len(input) :
               Cardinality({j \in 1 .. Len(disk[input[i]]) : disk[input[i]][j] = i}) = 1

\* C5 witness: finish has returned after lines of three keys went to two
\* threads, one key with two lines.
C5_Witness ==
    /\ rpc = "done"
    /\ Len(input) = MaxLines
    /\ Cardinality(DOMAIN msgkey_assigned) >= 3
    /\ \A w \in Threads : SeenKeys(w) # {}

\* C6: a key, once assigned, keeps its thread for the rest of the run, and
\* every line of the key is sent to that thread: the Write messages in a
\* channel, the line in hand, the encoders and the lines fed on a thread
\* all belong to keys assigned to it.
C6_RoutedToAssigned ==
    \A w \in Threads :
        /\ \A j \in 1 .. Len(chan[w]) :
               chan[w][j].type = "Write" => AssignedTo(chan[w][j].key, w)
        /\ cur[w].type \in {"Write", "Finish"} => AssignedTo(cur[w].key, w)
        /\ \A k \in DOMAIN encoders[w] : AssignedTo(k, w)
        /\ \A k \in SeenKeys(w) : AssignedTo(k, w)

C6_AssignmentKept ==
    \A k \in DOMAIN msgkey_assigned :
        k \in DOMAIN msgkey_assigned' /\ msgkey_assigned'[k] = msgkey_assigned[k]

C6_Sticky == []C6_RoutedToAssigned /\ [][C6_AssignmentKept]_vars

\* C6 witness: a key got a second line after the rotating cursor had moved
\* on to another thread and come back.
C6_Witness ==
    \E k \in DOMAIN msgkey_assigned :
        /\ Len(fed[msgkey_assigned[k]][k]) >= 2
        /\ Cardinality(DOMAIN msgkey_assigned) > NumThreads
        /\ last_thread_with_new_file # (msgkey_assigned[k] + 1) % NumThreads

C8_FinishCompletes ==
    \A w \in Threads :
        (~Alive(w) /\ Cardinality(SeenKeys(w)) > pool[w].max_open_files) =>
            /\ wpc[w] = "done"
            /\ \A k \in SeenKeys(w) : disk[k] # <<>> /\ disk[k][Len(disk[k])] = Trailer

C10_FinalizedOnce ==
    \A w \in Threads, k \in Keys :
        (~Alive(w) /\ fed[w][k] # <<>>) =>
            /\ nfinish[w][k] = 1
            /\ disk[k] = fed[w][k] \o <<Trailer>>

\* The thread is in its Write phase: it has not received Finish.
BeforeFinish(w) ==
    \/ wpc[w] = "recv"
    \/ wpc[w] \in {"reopen", "create", "taken"} /\ cur[w].type = "Write"

\* C11: from the first Write of a key until Finish the encoder map of the
\* thread has the encoder of the key, holding what was fed and not yet
\* written; a step of take (eviction, await of the close, reopen, create)
\* or of a closing task leaves every encoder as it is, and the only other
\* change is the feed of the line in hand, which adds that line to what the
\* key's encoder and file already hold.
C11_EncoderKept ==
    \A w \in Threads, k \in Keys :
        (BeforeFinish(w) /\ fed[w][k] # <<>>) =>
            /\ k \in DOMAIN encoders[w]
            /\ LineChunks(disk[k]) \o encoders[w][k].buf \o encoders[w][k].raw = fed[w][k]

C11_EncoderStep ==
    \A w \in Threads :
        BeforeFinish(w) =>
            /\ wpc[w] # "taken" => encoders'[w] = encoders[w]
            /\ \A k \in DOMAIN encoders[w] :
                   /\ k \in DOMAIN encoders'[w]
                   /\ \/ encoders'[w][k] = encoders[w][k]
                      \/ /\ wpc[w] = "taken" /\ cur[w].key = k
                         /\ LineChunks(disk'[k]) \o encoders'[w][k].buf \o encoders'[w][k].raw
                                = LineChunks(disk[k]) \o encoders[w][k].buf
                                      \o encoders[w][k].raw \o <<cur[w].ln>>

C11_EncoderPersists == []C11_EncoderKept /\ [][C11_EncoderStep]_vars

\* C11 witness: on a thread whose pool holds one file, key k was fed before
\* key j was first seen, so that the file of k was evicted for j; k's file
\* has now been taken again (reopened, j evicted in turn) and k's encoder
\* still holds the line it was fed before the eviction.
C11_Witness ==
    \E w \in Threads, k \in Keys, j \in Keys :
        /\ pool[w].max_open_files = 1
        /\ wpc[w] = "taken" /\ cur[w].type = "Write" /\ cur[w].key = k
        /\ j # k /\ j \in DOMAIN pool[w].inactive_files
        /\ fed[w][k] # <<>> /\ fed[w][j] # <<>> /\ fed[w][k][1] < fed[w][j][1]
        /\ k \in DOMAIN encoders[w] /\ encoders[w][k].raw = fed[w][k]

\* The sync+close task started by the last eviction of key k on thread w
\* has not completed: it is in inactive_files, or take has removed it from
\* there and holds its JoinHandle.
InFlightClose(w, k) ==
    \/ k \in DOMAIN pool[w].inactive_files /\ pool[w].inactive_files[k].closing_task # "done"
    \/ cur[w].key = k /\ cur[w].branch = "reopen" /\ cur[w].closing_task # "done"

\* C12: an open handle on the file of a key and an unfinished close of the
\* same file never exist together, and a step that opens the file of a key
\* (the key gets a handle) or writes to it is taken only when the closing
\* task of the key's last eviction has completed.
C12_NoHandleWhileClosing ==
    \A w \in Threads : \A k \in DOMAIN held[w] : ~InFlightClose(w, k)

C12_OpenStep ==
    \A w \in Threads, k \in Keys :
        ((k \in DOMAIN held'[w] /\ k \notin DOMAIN held[w]) \/ disk'[k] # disk[k])
            => ~InFlightClose(w, k)

C12_ReopenAfterClose == []C12_NoHandleWhileClosing /\ [][C12_OpenStep]_vars

\* C12 witness: the client holds the handle of a key that take has reopened
\* (the key had been evicted with bytes in its file), and writes through it.
C12_Witness ==
    \E k \in PoolKeyRange :
        /\ wpc[PoolThread] = "client"
        /\ cur[PoolThread].key = k /\ cur[PoolThread].branch = "reopen"
        /\ k \in DOMAIN held[PoolThread]
        /\ cur[PoolThread].cursor > 0
        /\ DOMAIN pool[PoolThread].inactive_files # {}

\* The append cursor of key k on thread w, as a set of at most one value:
\* in the entry held outside the pool (taken), in idle_files, in
\* inactive_files, or in the locals of a take that is reopening the file;
\* empty when the pool does not know the key.
CursorOf(w, k) ==
    IF k \in DOMAIN held[w] THEN {held[w][k]}
    ELSE IF k \in DOMAIN pool[w].idle_files THEN {pool[w].idle_files[k]}
    ELSE IF k \in DOMAIN pool[w].inactive_files THEN {pool[w].inactive_files[k].cursor}
    ELSE IF wpc[w] = "reopen" /\ cur[w].key = k THEN {cur[w].cursor}
    ELSE {}

\* C13: the cursor a key carries as taken, idle or inactive is the number of
\* bytes written to its file; it never goes down from one state to the
\* next; and the handle take returns for an idle or inactive key has the
\* cursor the key carried before the take (the one it was given back with).
C13_CursorIsLength ==
    \A w \in Threads, k \in Keys : \A c \in CursorOf(w, k) : c = Len(disk[k])

C13_CursorStep ==
    \A w \in Threads, k \in Keys :
        \A c \in CursorOf(w, k) : \A d \in CursorOf(w, k)' :
            /\ d >= c
            /\ k \notin DOMAIN held[w] => d = c

C13_CursorMonotonic == []C13_CursorIsLength /\ [][C13_CursorStep]_vars

\* C13 witness: a key was written, given back, evicted and reopened while
\* another key, written too, is idle; take has returned the handle of the
\* first key with the cursor of its write.
C13_Witness ==
    \E k \in PoolKeyRange, j \in PoolKeyRange :
        /\ cur[PoolThread].key = k /\ cur[PoolThread].branch = "reopen"
        /\ k \in DOMAIN held[PoolThread]
        /\ held[PoolThread][k] = cur[PoolThread].cursor /\ held[PoolThread][k] > 0
        /\ j \in DOMAIN pool[PoolThread].idle_files /\ pool[PoolThread].idle_files[j] > 0

\* C14: when write_at has returned zero bytes for a buffer that is not
\* empty, write_all stops and the thread fails; it does not go round the
\* loop again.
C14_ZeroWriteIsFatal ==
    [][(/\ wpc[PoolThread] = "loop"
        /\ cur[PoolThread].written = 0
        /\ cur[PoolThread].to_write # <<>>) => wpc'[PoolThread] = "panicked"]_vars

\* Bytes of the argument that write_all has written so far.
BytesDone == held[PoolThread][WriteKey] - cur[PoolThread].cursor

\* C15: during write_all(buf) on an entry with cursor c, whatever counts
\* the write_at calls return, the entry's cursor is c plus the number of
\* bytes written so far (the offset of the next write_at), to_write is the
\* part of buf after those bytes, and the file is the file at the call with
\* exactly those bytes of buf at c; write_all returns Ok only with to_write
\* empty, the cursor at c + len(buf) and the whole of buf in the file at c.
C15_WriteAllComplete ==
    /\ cur[PoolThread].type \in {"write_all", "write_all_ok"} =>
           /\ BytesDone \in 0 .. Len(cur[PoolThread].buf)
           /\ cur[PoolThread].to_write
                  = SubSeq(cur[PoolThread].buf, BytesDone + 1, Len(cur[PoolThread].buf))
           /\ disk[WriteKey]
                  = write_at(cur[PoolThread].file, SubSeq(cur[PoolThread].buf, 1, BytesDone),
                             cur[PoolThread].cursor)
    /\ cur[PoolThread].type = "write_all_ok" =>
           /\ held[PoolThread][WriteKey] = cur[PoolThread].cursor + Len(cur[PoolThread].buf)
           /\ [file |-> disk[WriteKey], cursor |-> held[PoolThread][WriteKey]]
                  = write_all(cur[PoolThread].file, cur[PoolThread].cursor, cur[PoolThread].buf)

\* C15 witness: write_all has returned Ok for a buffer of three bytes, not
\* all the same, that followed bytes already in the file and went out in
\* more than one write_at.
C15_Witness ==
    /\ cur[PoolThread].type = "write_all_ok"
    /\ Len(cur[PoolThread].buf) = MaxBuf
    /\ cur[PoolThread].buf[1] # cur[PoolThread].buf[MaxBuf]
    /\ cur[PoolThread].cursor > 0
    /\ cur[PoolThread].written \in 1 .. (MaxBuf - 1)

\* Finish messages sent to thread w so far: waiting in its channel, or
\* received.
IsFinish(m) == m.type = "Finish"

FinishSent(w) == Len(SelectSeq(chan[w], IsFinish)) + (IF BeforeFinish(w) THEN 0 ELSE 1)

\* C16: OutputFiles::finish sends one Finish to each thread, in thread
\* order, and none is sent otherwise; a Finish is the last message of its
\* channel, and a thread that has received it has been fed every line
\* routed to it; finish returns only when every thread has returned.
C16_FinishProtocol ==
    /\ \A w \in Threads :
           /\ FinishSent(w) = (IF rpc = "run" \/ (rpc = "finish_send" /\ w >= ri) THEN 0 ELSE 1)
           /\ \A j \in 1 .. Len(chan[w]) : IsFinish(chan[w][j]) => j = Len(chan[w])
           /\ ~BeforeFinish(w) =>
                  \A k \in Keys : AssignedTo(k, w) => fed[w][k] = LinesOf(k)
    /\ rpc = "done" => \A w \in Threads : wpc[w] = "done"

\* C16 witness: finish is waiting for the channels to drain; one thread
\* has returned, another still has a Write queued in front of its Finish.
C16_Witness ==
    /\ rpc = "finish_wait"
    /\ \E w \in Threads : wpc[w] = "done" /\ SeenKeys(w) # {}
    /\ \E w \in Threads :
           /\ Len(chan[w]) >= 2
           /\ chan[w][1].type = "Write"
           /\ IsFinish(chan[w][Len(chan[w])])

\* C17: once the input has ended and finish has started, every thread
\* returns from output_thread and finish returns.
C17_ShutdownCompletes ==
    (rpc = "finish_send") ~> (rpc = "done" /\ \A w \in Threads : wpc[w] = "done")

\* C18: when FilePool::finish returns, the pool has no idle file, no
\* inactive file and no taken file, and no closing task is left unfinished.
C18_FinishLeavesNothing ==
    [][(wpc[PoolThread] = "pool_finish" /\ wpc'[PoolThread] = "client") =>
           /\ DOMAIN pool'[PoolThread].idle_files = {}
           /\ DOMAIN pool'[PoolThread].inactive_files = {}
           /\ pool'[PoolThread].taken_files = {}
           /\ \A k \in DOMAIN pool[PoolThread].inactive_files :
                  pool[PoolThread].inactive_files[k].closing_task = "done"]_vars

\* The line is one the record keyer must refuse: not JSON, or one of the
\* three fields missing or not a string, or a timestamp not RFC 3339.
Malformed(l) ==
    \/ ~l.json
    \/ l.service.t # "str" \/ l.env.t # "str" \/ l.timestamp.t # "str"
    \/ ~l.timestamp.s.rfc3339

\* C19: LineData::parse gives a LineData or an InvalidLine and nothing
\* else, and for a malformed line it gives InvalidLine with that line.
C19_InvalidLineReturned ==
    parsed # NotParsed =>
        /\ parsed.kind \in {"LineData", "InvalidLine"}
        /\ Malformed(line[1]) => (parsed.kind = "InvalidLine" /\ parsed.line = line[1])

Seeds == 0 .. MaxSeed

\* C20: the key of the line just parsed and the key of the last line that
\* parsed are equal when the two lines have the same service, env and
\* date; two keys with equal names, and a key and its clone, have the same
\* cached hash; and a key (or two equal keys) fed to fresh hashers of one
\* builder, whatever its seed, gives one hash value.
C20_KeyDeterministic ==
    (parsed.kind = "LineData" /\ last_key # <<>>) =>
        LET a == last_key[1].key
            b == parsed.key
            l == line[1]
        IN
        /\ (/\ l.service.s = last_key[1].service
            /\ l.env.s = last_key[1].env
            /\ l.timestamp.s.date = last_key[1].date) => (MsgKey_eq(a, b) /\ a = b)
        /\ MsgKey_eq(a, b) => a.hash = b.hash
        /\ MsgKey_eq(b, MsgKey_clone(b)) /\ MsgKey_clone(b).hash = b.hash
        /\ \A seed \in Seeds :
               /\ MsgKey_hash([seed |-> seed], b) = MsgKey_hash([seed |-> seed], MsgKey_clone(b))
               /\ MsgKey_eq(a, b) =>
                      MsgKey_hash([seed |-> seed], a) = MsgKey_hash([seed |-> seed], b)

\* C20 witness: two lines with the same service, env and date and
\* different times of day have parsed, the service having an underscore.
C20_Witness ==
    /\ parsed.kind = "LineData" /\ last_key # <<>>
    /\ line[1].service.s = last_key[1].service /\ Len(line[1].service.s) > 1
    /\ line[1].env.s = last_key[1].env
    /\ line[1].timestamp.s.date = last_key[1].date
    /\ line[1].timestamp.s.time # last_key[1].time
    /\ MsgKey_eq(parsed.key, last_key[1].key)

\* C21: a pool method called against its precondition panics and changes
\* nothing: take of a key in taken_files, take with taken_files at
\* max_open_files, give of a key not in taken_files.  Conversely a key
\* starts being taken only when both asserts of take held, and becomes
\* idle only from taken_files.
TakePrecondition(p, k) ==
    k \notin p.taken_files /\ Cardinality(p.taken_files) < p.max_open_files

C21_ViolationsFatal ==
    [][\A k \in PoolKeyRange :
         LET p == pool[PoolThread]
             q == pool'[PoolThread]
         IN
         /\ (ApiTake(k) /\ ~TakePrecondition(p, k))
                => (wpc'[PoolThread] = "panicked" /\ q = p)
         /\ (ApiGive(k) /\ k \notin p.taken_files)
                => (wpc'[PoolThread] = "panicked" /\ q = p)
         /\ (/\ wpc[PoolThread] = "client"
             /\ \/ k \in q.taken_files \ p.taken_files
                \/ wpc'[PoolThread] \in {"reopen", "create"} /\ cur'[PoolThread].key = k)
                => TakePrecondition(p, k)
         /\ (k \in DOMAIN q.idle_files /\ k \notin DOMAIN p.idle_files)
                => k \in p.taken_files
      ]_vars

C21_Witness ==
    LET p == pool[PoolThread] IN
    /\ wpc[PoolThread] = "panicked"
    /\ Cardinality(p.taken_files) = p.max_open_files
    /\ p.max_open_files > 1
    /\ p.idle_files = EmptyMap
    /\ p.inactive_files # EmptyMap

\* C23: in every pool idle_files_queue lists the keys of idle_files, each
\* exactly once, and no other key.
QueueMatchesIdle(p) ==
    /\ SeqRange(p.idle_files_queue) = DOMAIN p.idle_files
    /\ Len(p.idle_files_queue) = Cardinality(DOMAIN p.idle_files)

C23_QueueIsIdleSet == \A w \in Threads : QueueMatchesIdle(pool[w])

C23_Witness ==
    LET p == pool[PoolThread] IN
    /\ Len(p.idle_files_queue) = 2
    /\ p.idle_files_queue[1] > p.idle_files_queue[2]
    /\ p.inactive_files # EmptyMap

\* C24: the queue is kept in the order of the gives.  A give puts its key
\* behind every key already waiting; a take of an idle key removes that
\* key and leaves the others in their order; the files a step closes are
\* those at the front of the queue, one for a take and all for finish.  So
\* the file closed by an eviction is the idle one given back longest ago.
Without(queue, k) == SelectSeq(queue, LAMBDA x : x # k)

MustEvict(p, k) ==
    /\ TakePrecondition(p, k)
    /\ k \notin DOMAIN p.idle_files
    /\ open_files(p) >= p.max_open_files

C30_EvictionFindsVictim ==
    \A w \in Threads : \A k \in Keys :
        LET p == pool[w]
            t == take(p, k)
        IN
        /\ (Alive(w) /\ wpc[w] \notin {"reopen", "create"} /\ MustEvict(p, k)) =>
              /\ p.idle_files_queue # <<>>
              /\ t.ok
              /\ Head(p.idle_files_queue) # k
              /\ DOMAIN t.pool.idle_files = (DOMAIN p.idle_files) \ {Head(p.idle_files_queue)}
              /\ Head(p.idle_files_queue) \in DOMAIN t.pool.inactive_files
        /\ (Alive(w) /\ wpc[w] \notin {"reopen", "create"} /\ TakePrecondition(p, k)) => t.ok

\* A take of an inactive key has just closed the only idle file.
C30_Witness ==
    LET p == pool[PoolThread] IN
    /\ wpc[PoolThread] = "reopen"
    /\ p.max_open_files = 2
    /\ Cardinality(p.taken_files) = 1
    /\ p.idle_files = EmptyMap
    /\ \E k \in DOMAIN p.inactive_files : p.inactive_files[k].closing_task = "sync"

\* C25: keys go to the threads round-robin in the order of their first
\* occurrence.  Key k is the k-th distinct key of the input (counting from
\* 1), so it is the thread (k - 1) % NumThreads that has it; the cursor
\* is the number of distinct keys seen so far modulo NumThreads, and it
\* moves only in a step that assigns a key not seen before.
C25_RoundRobin ==
    /\ [](/\ \A k \in DOMAIN msgkey_assigned : msgkey_assigned[k] = (k - 1) % NumThreads
          /\ DOMAIN msgkey_assigned = 1 .. Cardinality(DOMAIN msgkey_assigned)
          /\ last_thread_with_new_file = Cardinality(DOMAIN msgkey_assigned) % NumThreads)
    /\ [][/\ last_thread_with_new_file' # last_thread_with_new_file
             => /\ DOMAIN msgkey_assigned' # DOMAIN msgkey_assigned
                /\ last_thread_with_new_file' = (last_thread_with_new_file + 1) % NumThreads
          /\ DOMAIN msgkey_assigned' # DOMAIN msgkey_assigned
             => last_thread_with_new_file' # last_thread_with_new_file
         ]_vars

\* Three distinct keys, the third on the first thread again, and a line
\* with a key seen before.
C25_Witness ==
    /\ Cardinality(DOMAIN msgkey_assigned) = NumThreads + 1
    /\ msgkey_assigned[NumThreads + 1] = 0
    /\ Len(input) > NumThreads + 1
    /\ input[Len(input)] = 1

\* C26: a Write whose line cannot bring the encoder's buffer to the mark
\* (everything the encoder holds plus the new line stays below
\* LowWaterMark) does not touch the pool: in the step that receives it the
\* pool of the thread stays as it is, the thread holds no entry more than
\* before, and no open or create is under way.
StaysBelowMark(enc) == (Len(enc.buf) + Len(enc.raw) + 1) * ChunkBytes < LowWaterMark

C26_TakeOnlyAtMark ==
    [][\A w \in Threads :
         (/\ wpc[w] = "recv"
          /\ chan[w] # <<>>
          /\ Head(chan[w]).type = "Write"
          /\ wpc'[w] # "recv"
          /\ StaysBelowMark(encoders_entry(encoders[w], Head(chan[w]).key)))
         => (/\ pool'[w] = pool[w]
             /\ held'[w] = held[w]
             /\ wpc'[w] \notin {"reopen", "create"})
      ]_vars

\* What the code does instead: every Write takes the file of its key first
\* and gives it back at the end, flushing in between only at the mark.
C26_WriteAlwaysTakes ==
    [][\A w \in Threads :
         /\ (wpc[w] = "recv" /\ wpc'[w] \notin {"recv", "panicked"} /\ Head(chan[w]).type = "Write")
            => LET k == Head(chan[w]).key IN
               \/ wpc'[w] = "taken" /\ k \in pool'[w].taken_files /\ k \in DOMAIN held'[w]
               \/ wpc'[w] \in {"reopen", "create"} /\ cur'[w].key = k
         /\ (wpc[w] = "taken" /\ cur[w].type = "Write" /\ wpc'[w] = "recv")
            => LET k == cur[w].key IN
               /\ k \in DOMAIN pool'[w].idle_files
               /\ disk'[k] # disk[k] =>
                      Len(encoders_entry(encoders[w], k).buf) + Len(encoders_entry(encoders[w], k).raw)
                          + 1 >= LowWaterMark \div ChunkBytes
      ]_vars

\* C29: in a run no step takes bytes away from an output file.  A file is
\* created (and truncated) only by the first take of its key: no line of
\* the key has gone through its thread yet, the file is empty and the
\* entry starts at cursor 0.  A reopen leaves the contents as they are and
\* returns the cursor that was stored, the length of the file.
C29_CreateOnce ==
    [][\A k \in Keys :
         /\ IsPrefix(disk[k], disk'[k])
         /\ \A w \in Threads :
              (wpc[w] \in {"reopen", "create"} /\ cur[w].key = k /\ wpc'[w] = "taken") =>
                 IF wpc[w] = "create"
                 THEN /\ fed[w][k] = <<>> /\ nfinish[w][k] = 0
                      /\ \A v \in Threads : fed[v][k] = <<>>
                      /\ disk[k] = <<>>
                      /\ held'[w][k] = 0
                 ELSE /\ disk'[k] = disk[k]
                      /\ held'[w][k] = Len(disk[k])
                      /\ fed[w][k] # <<>>
         /\ \A w \in Threads :
              (k \in DOMAIN held'[w] /\ k \notin DOMAIN held[w] /\ wpc[w] = "recv")
                 => (disk'[k] = disk[k] /\ held'[w][k] = Len(disk[k]))
      ]_vars

\* The Finish branch has reopened a file that already has bytes in it.
C29_Witness ==
    \E w \in Threads :
        /\ wpc[w] = "taken"
        /\ cur[w].type = "Finish"
        /\ cur[w].branch = "reopen"
        /\ disk[cur[w].key] # <<>>
        /\ held[w][cur[w].key] = Len(disk[cur[w].key])

\* The lifecycle state of key k in the pool of thread w.  A key whose take
\* is between its awaits (the file is being reopened or created) counts as
\* taken: take has it and nobody else can call the pool meanwhile.
LifeState(w, k) ==
    IF k \in pool[w].taken_files \/ (wpc[w] \in {"reopen", "create"} /\ cur[w].key = k)
    THEN "taken"
    ELSE IF k \in DOMAIN pool[w].idle_files THEN "idle"
    ELSE IF k \in DOMAIN pool[w].inactive_files THEN "inactive"
    ELSE "unseen"

\* The edges the lifecycle is said to have.
StatedEdges ==
    {<<"unseen", "taken">>, <<"taken", "idle">>, <<"idle", "taken">>,
     <<"idle", "inactive">>, <<"inactive", "taken">>}

\* Every change of a key's state in this step is one of `edges`, and is
\* made by the method that owns the edge: a key becomes taken in the step
\* that begins its take (create for an unseen key, reopen for an inactive
\* one), leaves taken in the give that hands its entry back, becomes
\* inactive in the take of another key or in finish, and is forgotten in
\* the step in which finish returns.
LifeStep(w, edges) ==
    \A k \in Keys :
        LET a == LifeState(w, k)
            b == LifeState(w, k)'
        IN
        a # b =>
            /\ <<a, b>> \in edges
            /\ b = "taken" =>
                  /\ wpc[w] \in {"client", "recv", "fin"}
                  /\ cur'[w].key = k
                  /\ cur'[w].branch = (CASE a = "unseen" -> "create"
                                         [] a = "inactive" -> "reopen"
                                         [] OTHER -> "idle")
            /\ a = "taken" => (k \in DOMAIN held[w] /\ k \notin DOMAIN held'[w])
            /\ b = "inactive" =>
                  \/ wpc'[w] \in {"reopen", "create"} /\ cur'[w].key # k
                  \/ wpc'[w] = "pool_finish"
            /\ b = "unseen" => (wpc[w] = "pool_finish" /\ wpc'[w] = "client")

PoolLifecycle == [][LifeStep(PoolThread, StatedEdges \cup {<<"inactive", "unseen">>})]_vars

PoolLifecycleWithoutDrain == [][LifeStep(PoolThread, StatedEdges)]_vars

\* C22: get_even_partition(buckets, sum) with buckets >= 1 returns buckets
\* values that add up to sum, each of them floor(sum / buckets) or one
\* more; when sum >= buckets every value is at least 1.  The limits of the
\* threads' pools, made from get_even_partition(num_threads,
\* max_active_files) with max_active_files >= num_threads, are each at least
\* 1, differ by at most 1 and add up to a max_active_files.
C22_EvenPartition ==
    /\ partition # <<>> =>
          LET c == partition[1]
              floor == CHOOSE q \in 0 .. c.sum : q * c.buckets <= c.sum /\ c.sum < (q + 1) * c.buckets
          IN
          /\ DOMAIN c.v = 0 .. (c.buckets - 1)
          /\ SumOver(c.v, DOMAIN c.v) = c.sum
          /\ \A i \in DOMAIN c.v : c.v[i] \in {floor, floor + 1}
          /\ c.sum >= c.buckets => \A i \in DOMAIN c.v : c.v[i] >= 1
    /\ LET caps == [w \in Threads |-> pool[w].max_open_files] IN
       /\ \A w \in Threads : caps[w] >= 1
       /\ \A w, x \in Threads : caps[w] - caps[x] <= 1
       /\ SumOver(caps, Threads) \in NumThreads .. MaxActiveFiles

\* A partition with a remainder: both values occur.
C22_Witness ==
    /\ partition # <<>>
    /\ partition[1].buckets >= 3
    /\ partition[1].sum > partition[1].buckets
    /\ \E i, j \in DOMAIN partition[1].v : partition[1].v[i] = partition[1].v[j] + 1
    /\ \E w, x \in Threads : pool[w].max_open_files = pool[x].max_open_files + 1

\* The lines of a file: what stands before each newline, and what follows
\* the last newline when it is not empty.
RECURSIVE SplitLines(_, _)
SplitLines(bytes, acc) ==
    IF bytes = <<>> THEN (IF acc = <<>> THEN <<>> ELSE <<acc>>)
    ELSE IF Head(bytes) = Newline THEN <<acc>> \o SplitLines(Tail(bytes), <<>>)
    ELSE SplitLines(Tail(bytes), Append(acc, Head(bytes)))

\* C28: no line is lost at the end of the input.  What the iterator has
\* yielded followed by what waits in the channel is always the beginning
\* of the file's lines, in order; when read_input has passed its last send
\* these are all the lines, the non-empty rest after the last newline
\* included; the channel is closed only when it is empty and all lines have
\* been sent; the iterator has returned None only after yielding them all.
C28_NoLineLost ==
    reader.pc # "unspawned" =>
        LET all == SplitLines(reader.input, <<>>)
            sent == yielded.lines \o rx_raw.queue
        IN
        /\ IsPrefix(sent, all)
        /\ reader.pc \in {"wait_empty", "done"} => sent = all
        /\ rx_raw.closed => (rx_raw.queue = <<>> /\ yielded.lines = all)
        /\ yielded.none => yielded.lines = all

\* The input had two complete lines, one of them empty, and a rest without
\* newline; the iterator has yielded all three and then None.
C28_Witness ==
    /\ yielded.none
    /\ Len(yielded.lines) = 3
    /\ \E i \in 1 .. 2 : yielded.lines[i] = <<>>
    /\ reader.input[Len(reader.input)] # Newline

\* C31: OutputFiles::finish is idempotent.  A call made after a call has
\* returned finds self.threads empty: in that one step it returns, no
\* message is sent, no channel is closed, no thread is waited for or
\* changed.  So in every state each thread has been sent at most one
\* Finish, and after a return of finish self.threads is empty.
C31_FinishIdempotent ==
    /\ [](/\ \A w \in Threads : FinishSent(w) <= 1
          /\ rpc = "done" => threads = <<>>
          /\ finish_calls >= 2 => (rpc = "done" /\ finish_threads = <<>>))
    /\ [][(finish_calls' > finish_calls /\ finish_calls >= 1) =>
             /\ rpc = "done" /\ rpc' = "done"
             /\ finish_threads' = <<>>
             /\ chan' = chan
             /\ chan_closed' = chan_closed
             /\ wpc' = wpc
         ]_vars

\* finish has been called twice; the first call shut down threads that
\* had written lines, the second has returned.
C31_Witness ==
    /\ finish_calls = 2
    /\ rpc = "done"
    /\ Len(input) >= 2
    /\ \A w \in Threads : wpc[w] = "done" /\ SeenKeys(w) # {}

====
